---- MODULE Spec2Model ----
(***************************************************************************)
(* Model of the streaming HTTP handler of rr-http-plugin                   *)
(* (handler/handler_nightly.go): one Handler with its sync.Pools serves    *)
(* requests one after the other; the background ExecStream goroutine and   *)
(* the drain goroutine of a request may outlive its ServeHTTP call.        *)
(* A behaviour is either wide (one call, every input and configuration) or *)
(* narrow (MaxRequests calls over the same pools, few inputs).             *)
(***************************************************************************)
EXTENDS Integers, Sequences, FiniteSets, TLC

\* ------------------------------------------------------------------ bounds
\* number of ServeHTTP calls in one behaviour
MaxRequests == 2
\* most fragments the executor emits for one request
MaxFrags == 2
\* machine integers are scaled: uint64 is IntBits wide, int64 likewise
IntBits == 3
\* MB is 2^MBShift in the scaled machine (2^20 in the source)
MBShift == 1
\* largest maxReqSize handed to NewHandler
MaxCfgSize == 4

\* ------------------------------------------------------------- arithmetic
RECURSIVE Pow2(_)
Pow2(n) == IF n = 0 THEN 1 ELSE 2 * Pow2(n - 1)

\* const MB uint64 = 1024 * 1024
MB == Pow2(MBShift)

\* conversion of a non-negative number to uint64 (wraps)
Uint64(n) == n % Pow2(IntBits)

\* conversion uint64 -> int64 (two's complement reinterpretation)
Int64(u) == IF u >= Pow2(IntBits - 1) THEN u - Pow2(IntBits) ELSE u

\* Content-Length header values: "" absent, "x" not a number, else the
\* decimal numeral of n (the largest one is beyond the int64 range)
CLNumbers == (-1) .. Pow2(IntBits - 1)
NoCL == [num |-> FALSE, text |-> "", n |-> 0]
CLValues == {NoCL, [num |-> FALSE, text |-> "x", n |-> 0]}
            \cup {[num |-> TRUE, text |-> "n", n |-> n] : n \in CLNumbers}

\* a ParseInt that takes every numeral, whatever its size
ParseInt_AnySize(length) ==
    IF ~length.num THEN [err |-> TRUE, size |-> 0]
    ELSE [err |-> FALSE, size |-> length.n]

\* strconv.ParseInt(length, 10, 64): error on a non-numeral and on a value
\* outside the int64 range
ParseInt(length) ==
    IF ~length.num THEN [err |-> TRUE, size |-> 0]
    ELSE IF length.n < -Pow2(IntBits - 1) \/ length.n > Pow2(IntBits - 1) - 1
         THEN [err |-> TRUE, size |-> 0]
         ELSE [err |-> FALSE, size |-> length.n]

\* ------------------------------------------------------------ error kinds
\* the kinds of handleError's second condition, one forgotten
InternalKinds_NoNetwork == {"SoftJob", "WatcherStopped", "WorkerAllocate",
                            "ExecTTL", "IdleTTL", "TTL", "Encode", "Decode"}

\* kinds tested by handleError's second condition
InternalKinds == {"SoftJob", "WatcherStopped", "WorkerAllocate", "ExecTTL",
                  "IdleTTL", "TTL", "Encode", "Decode", "Network"}
\* kinds an executor error can carry ("Other": a kind handleError ignores)
ErrKinds == {"NoFreeWorkers", "SoftJob", "WatcherStopped", "WorkerAllocate",
             "ExecTTL", "IdleTTL", "TTL", "Encode", "Decode", "Network",
             "Other"}
\* the text carried by an error value
Details == {"d1", "d2"}
NoErr == [kind |-> "", detail |-> "", from |-> 0]
\* the errors ExecStream returns to the goroutine of request k; a narrow
\* behaviour has one kind of each class handleError distinguishes
ExecErrs(k, all) ==
    IF all THEN [kind : ErrKinds, detail : Details, from : {k}]
    ELSE [kind : {"NoFreeWorkers", "SoftJob", "Other"}, detail : {"d1"},
          from : {k}]
\* the error writeStream returns when the client is gone
WriteErrs(k, all) ==
    [kind : {"EPIPE"}, detail : IF all THEN Details ELSE {"d1"}, from : {k}]
\* the errors req.Payload returns
PayloadErrs(k, all) ==
    IF all THEN [kind : {"Encode", "Other"}, detail : Details, from : {k}]
    ELSE [kind : {"Encode"}, detail : {"d1"}, from : {k}]

Requests == 1 .. MaxRequests

VARIABLES
    maxReqSize,        \* the maxReqSize NewHandler was called with
    maxRequestSize,    \* Handler.maxRequestSize
    internalHTTPCode,  \* Handler.internalHTTPCode
    wide,              \* the behaviour explores one call with every input
    served,            \* ServeHTTP calls started; the id of the current one
    pc,                \* position of the foreground ServeHTTP call
    r,                 \* the *http.Request of the current call
    w,                 \* the http.ResponseWriter of the current call
    calls,             \* what the call received and wrote on w, in order
    req,               \* local req: id of the Request descriptor (0: none)
    pld,               \* local pld: id of the payload (0: none)
    errCh,             \* local errCh: id of the error channel (0: none)
    once,              \* local once
    lastErr,           \* local e / err: the error the call handled
    path,              \* exit path taken by the current call
    getReqs, putReqs,  \* descriptors the current call got from / put to reqPool
    getPlds, putPlds,  \* payloads the current call got from / put to pldPool
    execs,             \* ExecStream invocations of the current call
    reqObj, reqPool,   \* Request descriptors and Handler.reqPool
    pldObj, pldPool,   \* payloads and Handler.pldPool
    rspObj, rspPool,   \* Response descriptors and Handler.respPool
    chBuf, errPool,    \* error channels (buffer of 1) and Handler.errPool
    resp,              \* resp channel of each request
    bg,                \* background goroutine of each request
    drain,             \* drain goroutine of each request
    tmpFiles,          \* requests whose uploads have temporary files
    allocd,            \* objects made by each pool's New so far
    hold,              \* the descriptor each caller of getReq/putReq holds
    uploads,           \* Handler.uploads: dir, allow, forbid
    parts,             \* the file parts of the multipart form of the request
    list,              \* req.Uploads: the Upload descriptors of the request
    disk,              \* the temporary files in the file system
    rpcBuild,          \* which of the two Release methods of rpc.go is built
    workers,           \* the workers of the plugin's pool (Plugin.pool)
    releaseReqs,       \* pids the plugin's pool was asked to release
    localReqs,         \* pids a pool local to Release was asked to release
    response,          \* outcome of the last RPC Release call
    metrics,           \* what the last Collect sent on its channel
    urlQuery,          \* r.URL.RawQuery of the request handed to getReq
    reqQuery           \* req.RawQuery of the descriptor getReq returned

cfgVars == <<maxReqSize, maxRequestSize, internalHTTPCode, wide>>
outVars == <<w, calls, path, lastErr>>
reqVars == <<reqObj, reqPool, putReqs, tmpFiles>>
pldVars == <<pldObj, pldPool, putPlds>>
rspVars == <<rspObj, rspPool>>
chVars == <<chBuf, errPool>>
\* state the steps of ServeHTTP modelled below leave alone
upVars == <<uploads, parts, list, disk>>
adminVars == <<rpcBuild, workers, releaseReqs, localReqs, response, metrics>>
queryVars == <<urlQuery, reqQuery>>
sideVars == <<hold, upVars, adminVars, queryVars>>
vars == <<cfgVars, sideVars, served, pc, r, outVars, req, pld, errCh, once,
          getReqs, getPlds, execs, reqVars, pldVars, rspVars, chVars, resp,
          bg, drain, allocd>>

\* ------------------------------------------------------- http.ResponseWriter
NewWriter == [wroteHeader |-> FALSE, status |-> 0, hdr |-> {}, sent |-> {},
              body |-> <<>>]

\* w.Header().Set(k, v)
HeaderSet(wr, k, v) ==
    [wr EXCEPT !.hdr = {h \in wr.hdr : h[1] # k} \cup {<<k, v>>}]

\* w.WriteHeader(code): the first call fixes status and headers, a later
\* call is superfluous and changes nothing
WriteHeader(wr, code) ==
    IF wr.wroteHeader THEN wr
    ELSE [wr EXCEPT !.wroteHeader = TRUE, !.status = code, !.sent = wr.hdr]

\* w.Write(b): writes the header with 200 if none was written
Write(wr, b) ==
    LET w1 == WriteHeader(wr, 200)
    IN [w1 EXCEPT !.body = Append(w1.body, b)]

\* what the server does when ServeHTTP returns without a status: 200
Finish(wr) == WriteHeader(wr, 200)

\* body chunks: a fragment body or a message text
Frag(k, i) == [kind |-> "frag", rid |-> k, n |-> i, text |-> ""]
Msg(op, text) == [kind |-> op, rid |-> 0, n |-> 0, text |-> text]

\* http.Error(w, msg, code)
httpError(wr, msg, code) ==
    LET w1 == HeaderSet(HeaderSet(wr, "Content-Type", "text/plain"),
                        "X-Content-Type-Options", "nosniff")
    IN Write(WriteHeader(w1, code), msg)

\* entries of calls
CallWH(code) == [op |-> "WriteHeader", code |-> code, chunk |-> Msg("", "")]
CallW(b) == [op |-> "Write", code |-> 0, chunk |-> b]
CallHS(k) == [op |-> "HeaderSet", code |-> 0, chunk |-> Msg(k, "")]
\* receive events of the consuming loop
Recv(what) == [op |-> what, code |-> 0, chunk |-> Msg("", "")]
httpErrorCalls(msg, code) == <<CallHS("Content-Type"),
                               CallHS("X-Content-Type-Options"),
                               CallWH(code), CallW(msg)>>

\* ----------------------------------------------------------- handleError
\* handleError with the header set after the status was written
handleError_HeaderLate(wr, err) ==
    LET w1 == IF err.kind = "NoFreeWorkers"
              THEN HeaderSet(WriteHeader(wr, internalHTTPCode),
                             "No-Workers", "true")
              ELSE wr
    IN IF err.kind \in InternalKinds THEN WriteHeader(w1, internalHTTPCode)
       ELSE w1

\* handleError(w, err)
handleError(wr, err) ==
    LET w1 == IF err.kind = "NoFreeWorkers"
              THEN WriteHeader(HeaderSet(wr, "No-Workers", "true"),
                               internalHTTPCode)
              ELSE wr
    IN IF err.kind \in InternalKinds THEN WriteHeader(w1, internalHTTPCode)
       ELSE w1

\* handleError writing the internal-error status for an error of any kind
handleErrorCalls_AnyKind(err) ==
    (IF err.kind = "NoFreeWorkers"
     THEN <<CallHS("No-Workers"), CallWH(internalHTTPCode)>> ELSE <<>>)
    \o <<CallWH(internalHTTPCode)>>

\* the calls handleError issues on w
handleErrorCalls(err) ==
    (IF err.kind = "NoFreeWorkers"
     THEN <<CallHS("No-Workers"), CallWH(internalHTTPCode)>> ELSE <<>>)
    \o (IF err.kind \in InternalKinds THEN <<CallWH(internalHTTPCode)>>
        ELSE <<>>)

\* ------------------------------------------------------------------ pools
\* A field holds 0 (zero value, nil or an empty container) or the id of the
\* request whose data it holds.
\* reqPool.New
NewReq == [RawQuery |-> 0, RemoteAddr |-> 0, Protocol |-> 0, Method |-> 0,
           URI |-> 0, Header |-> 0, Cookies |-> 0, Attributes |-> 0,
           Parsed |-> FALSE, Uploads |-> 0, body |-> 0]
\* respPool.New
NewRsp == [Headers |-> 0, Status |-> -1]
\* pldPool.New
NewPld == [Body |-> 0, Context |-> 0, Codec |-> ""]

\* sync.Pool.Get: an object lying in the pool (no collection empties the
\* pool between calls), or a new one when the pool is empty
PoolGet(pool, made) ==
    IF \E id \in DOMAIN pool : pool[id] > 0
    THEN {id \in DOMAIN pool : pool[id] > 0}
    ELSE {made + 1}
\* the pool after Get returned id
PoolTake(pool, id) ==
    IF pool[id] > 0 THEN [pool EXCEPT ![id] = @ - 1] ELSE pool
\* sync.Pool.Put
PoolPut(pool, id) == [pool EXCEPT ![id] = @ + 1]

Max(a, b) == IF a >= b THEN a ELSE b

\* getReq: the fields set on the descriptor for request k
getReq(o, k) ==
    [o EXCEPT !.RawQuery = k, !.RemoteAddr = k, !.Protocol = k,
              !.Method = k, !.URI = k, !.Header = k, !.Cookies = 0,
              !.Attributes = k, !.Parsed = FALSE, !.body = 0]

\* putReq: the fields reset before reqPool.Put
putReq(o) ==
    [o EXCEPT !.RawQuery = 0, !.RemoteAddr = 0, !.Protocol = 0,
              !.Method = 0, !.URI = 0, !.Header = 0, !.Cookies = 0,
              !.Attributes = 0, !.Parsed = FALSE, !.body = 0]

\* putRsp: the fields reset before respPool.Put
putRsp(o) == [o EXCEPT !.Headers = 0, !.Status = -1]

\* getPld: the codec set on the payload taken from pldPool
getPld(o) == [o EXCEPT !.Codec = "JSON"]

\* putPld: the fields reset before pldPool.Put
putPld(o) == [o EXCEPT !.Body = 0, !.Context = 0]

\* request(r, req), successful: body, cookies and, for a multipart form,
\* the parsed flag and the upload list
request(o, k, multipart) ==
    [o EXCEPT !.Cookies = k, !.body = k,
              !.Parsed = multipart,
              !.Uploads = IF multipart THEN k ELSE @]

\* req.Payload(pld), successful
Payload(p, k) == [p EXCEPT !.Body = k, !.Context = k]

\* req.Open: temporary files of the descriptor's upload list
Open(files, o) == IF o.Uploads # 0 THEN files \cup {o.Uploads} ELSE files
\* req.Close: the temporary files of the upload list are removed
Close(files, o) == files \ {o.Uploads}

\* putErrCh: a pending error is taken out before errPool.Put
putErrCh(bufs, id) == [bufs EXCEPT ![id] = <<>>]

\* req.Close(h.log); h.putReq(req)
ReleaseReq(objs, pool, files, id) ==
    /\ tmpFiles' = Close(files, objs[id])
    /\ reqObj' = [objs EXCEPT ![id] = putReq(@)]
    /\ reqPool' = PoolPut(pool, id)
    /\ putReqs' = Append(putReqs, id)

\* h.putPld(pld)
ReleasePld(objs, pool, id) ==
    /\ pldObj' = [objs EXCEPT ![id] = putPld(@)]
    /\ pldPool' = PoolPut(pool, id)
    /\ putPlds' = Append(putPlds, id)

\* the deferred h.putErrCh(errCh)
ReleaseErrCh(bufs) ==
    /\ chBuf' = putErrCh(bufs, errCh)
    /\ errPool' = PoolPut(errPool, errCh)

\* a caller of getReq/putReq: the descriptor it got (0: none), how often it
\* put it back, and how many descriptors it has got so far
NoHold == [id |-> 0, puts |-> 0, gets |-> 0]

\* uploads of a Handler that stores every file: a usable directory and no
\* extension rule
DefaultUploads == [dir |-> "tmp", allow |-> {}, forbid |-> {}]

\* ------------------------------------------------------------------- Init
\* the byte ceiling of a Handler made with the maximum taken as bytes
MaxRequestSize_Bytes(m) == Uint64(m)

\* maxRequestSize: maxReqSize * MB, in uint64
MaxRequestSize(m) == Uint64(m * MB)

\* the Handler NewHandler returns for the upload settings up
NewHandler(up) ==
    /\ wide \in BOOLEAN
    /\ IF wide
       THEN \/ /\ maxReqSize \in 0 .. MaxCfgSize
               /\ internalHTTPCode = 500
            \/ /\ maxReqSize = 0
               /\ internalHTTPCode = 503
       ELSE /\ maxReqSize = 0
            /\ internalHTTPCode = 500
    /\ maxRequestSize = MaxRequestSize(maxReqSize)
    /\ served = 0
    /\ pc = "idle"
    /\ r = [cl |-> NoCL, multipart |-> FALSE]
    /\ w = NewWriter
    /\ calls = <<>>
    /\ req = 0 /\ pld = 0 /\ errCh = 0
    /\ once = FALSE
    /\ lastErr = NoErr
    /\ path = ""
    /\ getReqs = <<>> /\ putReqs = <<>>
    /\ getPlds = <<>> /\ putPlds = <<>>
    /\ execs = 0
    /\ reqObj = [i \in Requests |-> NewReq]
    /\ reqPool = [i \in Requests |-> 0]
    /\ pldObj = [i \in Requests |-> NewPld]
    /\ pldPool = [i \in Requests |-> 0]
    /\ rspObj = [i \in Requests |-> NewRsp]
    /\ rspPool = [i \in Requests |-> 0]
    /\ chBuf = [i \in Requests |-> <<>>]
    /\ errPool = [i \in Requests |-> 0]
    /\ resp = [i \in Requests |-> [buf |-> <<>>, closed |-> FALSE]]
    /\ bg = [i \in Requests |-> [st |-> "none", err |-> NoErr, ch |-> 0,
                                 emitted |-> 0, pld |-> 0]]
    /\ drain = [i \in Requests |-> "none"]
    /\ tmpFiles = {}
    /\ allocd = [req |-> 0, pld |-> 0, rsp |-> 0, ch |-> 0]
    /\ hold = [k \in Requests |-> NoHold]
    /\ uploads = up
    /\ parts = <<>>
    /\ list = <<>>
    /\ disk = {}

\* the outcome of an RPC call that was not made
NoResponse == [pid |-> 0, Ok |-> 0, err |-> "", released |-> FALSE]

\* the plugin around the Handler: its pool with the workers ws, the build of
\* the RPC method, no RPC call and no scrape so far
NewPlugin(build, ws) ==
    /\ rpcBuild = build
    /\ workers = ws
    /\ releaseReqs = <<>>
    /\ localReqs = <<>>
    /\ response = NoResponse
    /\ metrics = <<>>

\* no request was handed to getReq
NoQuery == urlQuery = <<>> /\ reqQuery = <<>>

Init == NewHandler(DefaultUploads) /\ NewPlugin("plugin", <<>>) /\ NoQuery

\* ------------------------------------------------- ServeHTTP, foreground
\* size > int64(h.maxRequestSize), off by one
TooLarge_OffByOne(size) == size > Int64(maxRequestSize) + 1

\* size > int64(h.maxRequestSize)
TooLarge(size) == size > Int64(maxRequestSize)

SizeMsg == Msg("http_handler_max_size", "request body max size is exceeded")

\* entry of ServeHTTP and validation of the request size
Validate ==
    /\ pc \in {"idle", "done"}
    /\ served < (IF wide THEN 1 ELSE MaxRequests)
    /\ served' = served + 1
    /\ \E cl \in (IF wide THEN CLValues ELSE {NoCL}), mp \in BOOLEAN :
         /\ r' = [cl |-> cl, multipart |-> mp]
         /\ LET p == ParseInt(cl)
                checked == maxRequestSize # 0 /\ cl.text # ""
            IN IF checked /\ p.err
               THEN /\ w' = httpError(NewWriter, Msg("", ""), 500)
                    /\ calls' = httpErrorCalls(Msg("", ""), 500)
                    /\ path' = "size500"
                    /\ pc' = "done"
               ELSE IF checked /\ TooLarge(p.size)
               THEN /\ w' = httpError(NewWriter, SizeMsg, 400)
                    /\ calls' = httpErrorCalls(SizeMsg, 400)
                    /\ path' = "size400"
                    /\ pc' = "done"
               ELSE /\ w' = NewWriter
                    /\ calls' = <<>>
                    /\ path' = ""
                    /\ pc' = "translate"
    /\ req' = 0 /\ pld' = 0 /\ errCh' = 0 /\ once' = FALSE
    /\ lastErr' = NoErr
    /\ getReqs' = <<>> /\ putReqs' = <<>>
    /\ getPlds' = <<>> /\ putPlds' = <<>>
    /\ execs' = 0
    /\ UNCHANGED <<cfgVars, sideVars, reqObj, reqPool, tmpFiles, pldObj, pldPool,
                   rspVars, chVars, resp, bg, drain, allocd>>

\* the translation step without the test for the broken pipe: every error
\* of request(r, req) is answered with 500
Translate_NoEpipeTest ==
    /\ pc = "translate"
    /\ \E id \in PoolGet(reqPool, allocd.req) :
         LET o1 == getReq(reqObj[id], served)
             objs == [reqObj EXCEPT ![id] = o1]
             taken == PoolTake(reqPool, id)
         IN /\ allocd' = [allocd EXCEPT !.req = Max(@, id)]
            /\ req' = id
            /\ getReqs' = Append(getReqs, id)
            /\ \/ /\ reqObj' = [reqObj EXCEPT
                                  ![id] = request(o1, served, r.multipart)]
                  /\ reqPool' = taken
                  /\ pc' = "payload"
                  /\ UNCHANGED <<outVars, putReqs, tmpFiles>>
               \/ \E how \in {"epipe", "translate"},
                     d \in (IF wide THEN Details ELSE {"d1"}) :
                  /\ ReleaseReq(objs, taken, tmpFiles, id)
                  /\ lastErr' = [kind |-> IF how = "epipe" THEN "EPIPE"
                                          ELSE "Other",
                                 detail |-> d, from |-> served]
                  /\ w' = httpError(w, Msg("serve_http", d), 500)
                  /\ calls' = calls \o httpErrorCalls(Msg("serve_http", d), 500)
                  /\ path' = how
                  /\ pc' = "done"
    /\ UNCHANGED <<cfgVars, sideVars, served, r, pld, errCh, once, getPlds,
                   execs, pldVars, rspVars, chVars, resp, bg, drain>>

\* getReq and request(r, req), with the two error exits
Translate ==
    /\ pc = "translate"
    /\ \E id \in PoolGet(reqPool, allocd.req) :
         LET o1 == getReq(reqObj[id], served)
             objs == [reqObj EXCEPT ![id] = o1]
             taken == PoolTake(reqPool, id)
         IN /\ allocd' = [allocd EXCEPT !.req = Max(@, id)]
            /\ req' = id
            /\ getReqs' = Append(getReqs, id)
            /\ \/ \* request succeeded
                  /\ reqObj' = [reqObj EXCEPT
                                  ![id] = request(o1, served, r.multipart)]
                  /\ reqPool' = taken
                  /\ pc' = "payload"
                  /\ UNCHANGED <<outVars, putReqs, tmpFiles>>
               \/ \* errEPIPE: nothing is written
                  /\ ReleaseReq(objs, taken, tmpFiles, id)
                  /\ lastErr' = [kind |-> "EPIPE", detail |-> "d1",
                                 from |-> served]
                  /\ path' = "epipe"
                  /\ pc' = "done"
                  /\ w' = Finish(w)
                  /\ UNCHANGED calls
               \/ \* any other error: 500 with the error's text
                  \E d \in (IF wide THEN Details ELSE {"d1"}) :
                  /\ ReleaseReq(objs, taken, tmpFiles, id)
                  /\ lastErr' = [kind |-> "Other", detail |-> d,
                                 from |-> served]
                  /\ w' = httpError(w, Msg("serve_http", d), 500)
                  /\ calls' = calls \o httpErrorCalls(Msg("serve_http", d), 500)
                  /\ path' = "translate"
                  /\ pc' = "done"
    /\ UNCHANGED <<cfgVars, sideVars, served, r, pld, errCh, once, getPlds, execs,
                   pldVars, rspVars, chVars, resp, bg, drain>>

\* req.Open, getPld and req.Payload(pld), with the error exit
FormPayload ==
    /\ pc = "payload"
    /\ \E id \in PoolGet(pldPool, allocd.pld) :
         LET p1 == getPld(pldObj[id])
             objs == [pldObj EXCEPT ![id] = p1]
             taken == PoolTake(pldPool, id)
             opened == Open(tmpFiles, reqObj[req])
         IN /\ allocd' = [allocd EXCEPT !.pld = Max(@, id)]
            /\ pld' = id
            /\ getPlds' = Append(getPlds, id)
            /\ \/ \* payload formed
                  /\ pldObj' = [pldObj EXCEPT ![id] = Payload(p1, served)]
                  /\ pldPool' = taken
                  /\ tmpFiles' = opened
                  /\ pc' = "exec"
                  /\ UNCHANGED <<outVars, reqObj, reqPool, putReqs, putPlds>>
               \/ \* payload forming error
                  \E e \in PayloadErrs(served, wide) :
                  /\ ReleaseReq(reqObj, reqPool, opened, req)
                  /\ ReleasePld(objs, taken, id)
                  /\ lastErr' = e
                  /\ w' = Finish(handleError(w, e))
                  /\ calls' = calls \o handleErrorCalls(e)
                  /\ path' = "payload"
                  /\ pc' = "done"
    /\ UNCHANGED <<cfgVars, sideVars, served, r, req, errCh, once, getReqs, execs,
                   rspVars, chVars, resp, bg, drain>>

\* writeStream(p, w, once), successful: status and headers of the worker's
\* response on the first fragment, the body on every fragment
writeStream(wr, p, first) ==
    LET w1 == IF first
              THEN WriteHeader(HeaderSet(wr, "X-Worker", "k"), 200)
              ELSE wr
    IN Write(w1, p)
writeStreamCalls(p, first) ==
    (IF first THEN <<CallHS("X-Worker"), CallWH(200)>> ELSE <<>>)
    \o <<CallW(p)>>
\* writeStream failing: the body write does not reach the client
writeStreamFail(wr, first) ==
    IF first THEN WriteHeader(HeaderSet(wr, "X-Worker", "k"), 200) ELSE wr
writeStreamFailCalls(first) ==
    IF first THEN <<CallHS("X-Worker"), CallWH(200)>> ELSE <<>>

\* make(chan, 1), getErrCh, defer putErrCh and the goroutine calling
\* ExecStream
StartExec ==
    /\ pc = "exec"
    /\ \E id \in PoolGet(errPool, allocd.ch) :
         /\ allocd' = [allocd EXCEPT !.ch = Max(@, id)]
         /\ errPool' = PoolTake(errPool, id)
         /\ errCh' = id
         /\ bg' = [bg EXCEPT ![served] = [st |-> "exec", err |-> NoErr,
                                          ch |-> id, emitted |-> 0,
                                          pld |-> pld]]
    /\ resp' = [resp EXCEPT ![served] = [buf |-> <<>>, closed |-> FALSE]]
    /\ once' = FALSE
    /\ execs' = execs + 1
    /\ pc' = "loop"
    /\ UNCHANGED <<cfgVars, sideVars, served, r, outVars, req, pld, getReqs, getPlds,
                   reqVars, pldVars, rspVars, chBuf, drain>>

\* the teardown without its return: the loop goes on
Teardown_NoReturn(e, wr, cs, bufs, how) ==
    /\ ReleaseReq(reqObj, reqPool, tmpFiles, req)
    /\ lastErr' = e
    /\ w' = handleError(wr, e)
    /\ calls' = cs \o handleErrorCalls(e)
    /\ drain' = [drain EXCEPT ![served] = "run"]
    /\ chBuf' = bufs
    /\ UNCHANGED errPool
    /\ path' = how
    /\ pc' = "loop"

\* the teardown without putReq
Teardown_NoPutReq(e, wr, cs, bufs, how) ==
    /\ UNCHANGED reqVars
    /\ lastErr' = e
    /\ w' = Finish(handleError(wr, e))
    /\ calls' = cs \o handleErrorCalls(e)
    /\ drain' = [drain EXCEPT ![served] = "run"]
    /\ ReleaseErrCh(bufs)
    /\ path' = how
    /\ pc' = "done"

\* the teardown shared by the two error exits of the loop: req.Close,
\* putReq, handleError, the drain goroutine, return (deferred putErrCh)
Teardown(e, wr, cs, bufs, how) ==
    /\ ReleaseReq(reqObj, reqPool, tmpFiles, req)
    /\ lastErr' = e
    /\ w' = Finish(handleError(wr, e))
    /\ calls' = cs \o handleErrorCalls(e)
    /\ drain' = [drain EXCEPT ![served] = "run"]
    /\ ReleaseErrCh(bufs)
    /\ path' = how
    /\ pc' = "done"

\* select, case e := <-errCh
LoopErr ==
    /\ pc = "loop"
    /\ chBuf[errCh] # <<>>
    /\ Teardown(Head(chBuf[errCh]), w, Append(calls, Recv("RecvErr")),
                [chBuf EXCEPT ![errCh] = Tail(@)], "execerr")
    /\ UNCHANGED <<cfgVars, sideVars, served, r, req, pld, errCh, once, getReqs,
                   getPlds, execs, pldVars, rspVars, resp, bg, allocd>>

\* the fragment case handling the fragment without taking it off resp
LoopResp_NotTaken ==
    /\ pc = "loop"
    /\ resp[served].buf # <<>>
    /\ LET p == Head(resp[served].buf)
           cs == Append(calls, Recv("RecvFrag"))
       IN /\ UNCHANGED resp
          /\ \E id \in PoolGet(rspPool, allocd.rsp) :
               IF once
               THEN UNCHANGED <<rspVars, allocd>>
               ELSE /\ rspObj' = [rspObj EXCEPT ![id] =
                          putRsp([Headers |-> served, Status |-> 200])]
                    /\ rspPool' = PoolPut(PoolTake(rspPool, id), id)
                    /\ allocd' = [allocd EXCEPT !.rsp = Max(@, id)]
          /\ \/ /\ w' = writeStream(w, p, ~once)
                /\ calls' = cs \o writeStreamCalls(p, ~once)
                /\ once' = TRUE
                /\ UNCHANGED <<pc, path, lastErr, reqVars, chVars, drain>>
             \/ \E e \in WriteErrs(served, wide) :
                /\ Teardown(e, writeStreamFail(w, ~once),
                            cs \o writeStreamFailCalls(~once), chBuf,
                            "writeerr")
                /\ UNCHANGED once
    /\ UNCHANGED <<cfgVars, sideVars, served, r, req, pld, errCh, getReqs,
                   getPlds, execs, pldVars, bg>>

\* select, case p, cl := <-resp with a fragment: writeStream
LoopResp ==
    /\ pc = "loop"
    /\ resp[served].buf # <<>>
    /\ LET p == Head(resp[served].buf)
           cs == Append(calls, Recv("RecvFrag"))
       IN /\ resp' = [resp EXCEPT ![served].buf = Tail(@)]
          /\ \E id \in PoolGet(rspPool, allocd.rsp) :
               \* the Response descriptor writeStream decodes into
               IF once
               THEN UNCHANGED <<rspVars, allocd>>
               ELSE /\ rspObj' = [rspObj EXCEPT ![id] =
                          putRsp([Headers |-> served, Status |-> 200])]
                    /\ rspPool' = PoolPut(PoolTake(rspPool, id), id)
                    /\ allocd' = [allocd EXCEPT !.rsp = Max(@, id)]
          /\ \/ \* written
                /\ w' = writeStream(w, p, ~once)
                /\ calls' = cs \o writeStreamCalls(p, ~once)
                /\ once' = TRUE
                /\ UNCHANGED <<pc, path, lastErr, reqVars, chVars, drain>>
             \/ \* the write failed
                \E e \in WriteErrs(served, wide) :
                /\ Teardown(e, writeStreamFail(w, ~once),
                            cs \o writeStreamFailCalls(~once), chBuf,
                            "writeerr")
                /\ UNCHANGED once
    /\ UNCHANGED <<cfgVars, sideVars, served, r, req, pld, errCh, getReqs, getPlds,
                   execs, pldVars, bg>>

\* select, case <-resp on the closed channel: log, putPld, req.Close,
\* putReq, return (deferred putErrCh)
LoopClosed ==
    /\ pc = "loop"
    /\ resp[served].buf = <<>>
    /\ resp[served].closed
    /\ calls' = Append(calls, Recv("RecvClose"))
    /\ ReleasePld(pldObj, pldPool, pld)
    /\ ReleaseReq(reqObj, reqPool, tmpFiles, req)
    /\ ReleaseErrCh(chBuf)
    /\ w' = Finish(w)
    /\ path' = "ok"
    /\ pc' = "done"
    /\ UNCHANGED <<cfgVars, sideVars, served, r, req, pld, errCh, once, lastErr,
                   getReqs, getPlds, execs, rspVars, resp, bg, drain, allocd>>

\* ------------------------------------------------------------- executor
fgVars == <<served, pc, r, outVars, req, pld, errCh, once, getReqs, getPlds,
            execs, reqVars, pldVars, rspVars, allocd>>

\* ExecStream sends one more fragment on resp
ExecEmit(k) ==
    /\ bg[k].st = "exec"
    /\ bg[k].emitted < MaxFrags
    /\ Len(resp[k].buf) < 1
    /\ resp' = [resp EXCEPT ![k].buf = Append(@, Frag(k, bg[k].emitted + 1))]
    /\ bg' = [bg EXCEPT ![k].emitted = @ + 1]
    /\ UNCHANGED <<cfgVars, sideVars, fgVars, chVars, drain>>

\* ExecStream closes resp and returns nil
ExecClose(k) ==
    /\ bg[k].st = "exec"
    /\ resp' = [resp EXCEPT ![k].closed = TRUE]
    /\ bg' = [bg EXCEPT ![k].st = "done"]
    /\ UNCHANGED <<cfgVars, sideVars, fgVars, chVars, drain>>

\* ExecStream returns an error
ExecFail(k) ==
    /\ bg[k].st = "exec"
    /\ \E e \in ExecErrs(k, wide) :
         bg' = [bg EXCEPT ![k].st = "send", ![k].err = e]
    /\ UNCHANGED <<cfgVars, sideVars, fgVars, chVars, resp, drain>>

\* the goroutine's errCh <- errS
BgSendErr(k) ==
    /\ bg[k].st = "send"
    /\ Len(chBuf[bg[k].ch]) < 1
    /\ chBuf' = [chBuf EXCEPT ![bg[k].ch] = Append(@, bg[k].err)]
    /\ bg' = [bg EXCEPT ![k].st = "done"]
    /\ UNCHANGED <<cfgVars, sideVars, fgVars, errPool, resp, drain>>

\* the drain goroutine: for range resp {}
Drain(k) ==
    /\ drain[k] = "run"
    /\ \/ /\ resp[k].buf # <<>>
          /\ resp' = [resp EXCEPT ![k].buf = Tail(@)]
          /\ UNCHANGED drain
       \/ /\ resp[k].buf = <<>>
          /\ resp[k].closed
          /\ drain' = [drain EXCEPT ![k] = "done"]
          /\ UNCHANGED resp
    /\ UNCHANGED <<cfgVars, sideVars, fgVars, chVars, bg>>

Next ==
    \/ Validate
    \/ Translate
    \/ FormPayload
    \/ StartExec
    \/ LoopErr
    \/ LoopResp
    \/ LoopClosed
    \/ \E k \in Requests : ExecEmit(k)
    \/ \E k \in Requests : ExecClose(k)
    \/ \E k \in Requests : ExecFail(k)
    \/ \E k \in Requests : BgSendErr(k)
    \/ \E k \in Requests : Drain(k)

Spec == Init /\ [][Next]_vars

\* one call served by a Handler of any configuration, for any request
WideInit == Init /\ wide

WideSpec == WideInit /\ [][Next]_vars

\* The scheduling of the goroutines: a ServeHTTP call that can take a step
\* takes one (the select picks any ready case), the executor of a request
\* goes on until it closes resp or returns its error, and the goroutine
\* sending the error and the drain goroutine run when they can. Nothing
\* makes a new request arrive.
FairSpec ==
    /\ Spec
    /\ WF_vars(Translate)
    /\ WF_vars(FormPayload)
    /\ WF_vars(StartExec)
    /\ WF_vars(LoopErr \/ LoopResp \/ LoopClosed)
    /\ \A k \in Requests : WF_vars(ExecClose(k) \/ ExecFail(k))
    /\ \A k \in Requests : WF_vars(BgSendErr(k))
    /\ \A k \in Requests : WF_vars(Drain(k))

\* ------------------------------------------- reqPool under any callers
\* getReq and putReq as any caller may use them: the callers run at the same
\* time, each holds the descriptor it got, and nothing keeps a caller from
\* putting its descriptor back a second time.
\* most descriptors one caller gets
MaxGets == 2
\* most times a caller puts one descriptor back
MaxPuts == 2

\* the caller uses a descriptor it got and has not put back
Active(k) == hold[k].id # 0 /\ hold[k].puts = 0

\* what the callers of the pool leave alone
poolIdle == <<cfgVars, upVars, adminVars, queryVars, served, pc, r,
              outVars, req, pld, errCh, once, getReqs, getPlds, execs,
              putReqs, tmpFiles, pldVars, rspVars, chVars, resp, bg, drain>>

PoolInit == Init /\ ~wide

\* req := h.getReq(r) by caller k
CallerGet(k) ==
    /\ ~Active(k)
    /\ hold[k].gets < MaxGets
    /\ \E id \in PoolGet(reqPool, allocd.req) :
         /\ allocd' = [allocd EXCEPT !.req = Max(@, id)]
         /\ reqObj' = [reqObj EXCEPT ![id] = getReq(@, k)]
         /\ reqPool' = PoolTake(reqPool, id)
         /\ hold' = [hold EXCEPT ![k] = [id |-> id, puts |-> 0,
                                         gets |-> @.gets + 1]]
    /\ UNCHANGED poolIdle

\* h.putReq(req) by caller k, for the first time or once more
CallerPut(k) ==
    /\ hold[k].id # 0
    /\ hold[k].puts < MaxPuts
    /\ reqObj' = [reqObj EXCEPT ![hold[k].id] = putReq(@)]
    /\ reqPool' = PoolPut(reqPool, hold[k].id)
    /\ hold' = [hold EXCEPT ![k].puts = @ + 1]
    /\ UNCHANGED <<poolIdle, allocd>>

PoolNext ==
    \/ \E k \in Requests : CallerGet(k)
    \/ \E k \in Requests : CallerPut(k)

PoolSpec == PoolInit /\ [][PoolNext]_vars

\* ------------------------------------------------------------ the uploads
\* The Upload descriptors of one multipart request: request(r, req) makes
\* one per file part, req.Open opens them, each in a goroutine of its own,
\* the call goes on to the worker whatever the outcome, and req.Close
\* removes the temporary files.
\* most file parts in one multipart form
MaxParts == 2
\* most bytes in one file part
MaxBytes == 1

\* error codes of an Upload descriptor
UploadErrorOK == 0
UploadErrorNoTmpDir == 6
UploadErrorExtension == 8

\* file names and extensions, character by character
NameGo == <<"a", ".", "g", "o">>
NameGoUpper == <<"a", ".", "G", "O">>
NamePhp == <<"b", ".", "g", "o", ".", "p", "h", "p">>
NameNoExt == <<"c">>
FileNames == {NameGo, NameGoUpper, NamePhp, NameNoExt}
DotGo == <<".", "g", "o">>
DotPhp == <<".", "p", "h", "p">>
Extensions == {DotGo, DotPhp}

\* strings.ToLower, for the letters of the file names
ToLowerChar(c) == CASE c = "G" -> "g" [] c = "O" -> "o" [] OTHER -> c
ToLower(str) == [i \in DOMAIN str |-> ToLowerChar(str[i])]

\* the extension of a file name: the suffix from its last dot on, empty
\* when it has no dot
LastDot(str) ==
    LET D == {i \in DOMAIN str : str[i] = "."}
    IN IF D = {} THEN 0 ELSE CHOOSE i \in D : \A j \in D : j <= i
Ext(str) ==
    IF LastDot(str) = 0 THEN <<>> ELSE SubSeq(str, LastDot(str), Len(str))

\* the content of a file part and its checksum (a digest standing for
\* SHA-512; 0 is kept for "no checksum")
Bytes == {1}
Datas == UNION {[1 .. n -> Bytes] : n \in 0 .. MaxBytes}
RECURSIVE Digest(_, _)
Digest(h, d) ==
    IF d = <<>> THEN h ELSE Digest((h * 3 + Head(d) + 1) % 97, Tail(d))
Checksum(d) == Digest(1, d) + 1

\* a file part: its name, the size its header declares, its content
Parts == [name : FileNames, declared : {MaxBytes + 1}, data : Datas]
PartLists == UNION {[1 .. n -> Parts] : n \in 1 .. MaxParts}

\* the upload settings a Handler can be made with, and the directories in
\* which a temporary file can be created
UploadCfgs == [dir : {"tmp", "--------"}, allow : SUBSET Extensions,
               forbid : SUBSET Extensions]
UsableDirs == {"tmp"}

NoPath == [dir |-> "", n |-> 0]
\* the Upload descriptor request(r, req) makes for a file part
NewUpload(part) ==
    [Name |-> part.name, Mime |-> "application/octet-stream", Size |-> 0,
     Error |-> UploadErrorOK, TempFilename |-> NoPath, Sha512 |-> 0,
     opened |-> FALSE]

\* the extension rule comparing the extension as the client wrote it
ExtensionRefused_CaseSensitive(name, up) ==
    \/ Ext(name) \in up.forbid
    \/ up.allow # {} /\ Ext(name) \notin up.allow

\* the extension rule: the forbidden set first, then the allowed set when
\* it is not empty
ExtensionRefused(name, up) ==
    \/ ToLower(Ext(name)) \in up.forbid
    \/ up.allow # {} /\ ToLower(Ext(name)) \notin up.allow

\* the temporary file made with the size the part's header declares
Store_DeclaredSize(f, part, up, files) ==
    LET tmp == [dir |-> up.dir, n |-> Cardinality(files) + 1]
    IN [f |-> [f EXCEPT !.TempFilename = tmp, !.Size = part.declared,
                        !.Sha512 = Checksum(part.data), !.opened = TRUE],
        disk |-> files \cup {[path |-> tmp, bytes |-> part.data]}]

\* the part is written to a new temporary file of the directory; the size
\* is the number of bytes written
Store(f, part, up, files) ==
    LET tmp == [dir |-> up.dir, n |-> Cardinality(files) + 1]
    IN [f |-> [f EXCEPT !.TempFilename = tmp, !.Size = Len(part.data),
                        !.Sha512 = Checksum(part.data), !.opened = TRUE],
        disk |-> files \cup {[path |-> tmp, bytes |-> part.data]}]

\* opening an upload with the extension rule ahead of the directory
FileUploadOpen_ExtensionFirst(f, part, up, files) ==
    IF ExtensionRefused(f.Name, up)
    THEN [f |-> [f EXCEPT !.Error = UploadErrorExtension, !.opened = TRUE],
          disk |-> files]
    ELSE IF up.dir \notin UsableDirs
    THEN [f |-> [f EXCEPT !.Error = UploadErrorNoTmpDir, !.opened = TRUE],
          disk |-> files]
    ELSE Store(f, part, up, files)

\* opening one upload: an unusable directory fails every file, then the
\* extension rule, then the temporary file
FileUploadOpen(f, part, up, files) ==
    IF up.dir \notin UsableDirs
    THEN [f |-> [f EXCEPT !.Error = UploadErrorNoTmpDir, !.opened = TRUE],
          disk |-> files]
    ELSE IF ExtensionRefused(f.Name, up)
    THEN [f |-> [f EXCEPT !.Error = UploadErrorExtension, !.opened = TRUE],
          disk |-> files]
    ELSE Store(f, part, up, files)

\* what the steps on the uploads leave alone
uploadIdle == <<cfgVars, hold, adminVars, queryVars, uploads, req, pld,
                errCh, once, lastErr, getReqs, getPlds, reqVars, pldVars,
                rspVars, chVars, resp, bg, drain, allocd>>

UploadInit ==
    /\ \E up \in UploadCfgs : NewHandler(up)
    /\ NewPlugin("plugin", <<>>) /\ NoQuery
    /\ ~wide

\* ServeHTTP up to request(r, req) for a multipart form with file parts
UploadTranslate ==
    /\ pc = "idle"
    /\ served' = served + 1
    /\ r' = [cl |-> NoCL, multipart |-> TRUE]
    /\ \E ps \in PartLists :
         /\ parts' = ps
         /\ list' = [i \in DOMAIN ps |-> NewUpload(ps[i])]
    /\ pc' = "open"
    /\ UNCHANGED <<uploadIdle, w, calls, path, execs, disk>>

\* req.Open: the goroutine opening upload i
FileOpen(i) ==
    /\ pc = "open"
    /\ i \in DOMAIN list
    /\ ~list[i].opened
    /\ LET res == FileUploadOpen(list[i], parts[i], uploads, disk)
       IN /\ list' = [list EXCEPT ![i] = res.f]
          /\ disk' = res.disk
    /\ UNCHANGED <<uploadIdle, served, r, w, calls, path, execs, parts, pc>>

\* req.Open returns when every upload was opened; it has no result, and the
\* call hands the payload with the descriptors to ExecStream
UploadExec ==
    /\ pc = "open"
    /\ \A i \in DOMAIN list : list[i].opened
    /\ execs' = execs + 1
    /\ pc' = "worker"
    /\ UNCHANGED <<uploadIdle, served, r, w, calls, path, parts, list, disk>>

\* the worker's response is written and the call returns: req.Close removes
\* the temporary files of the descriptors
UploadRespond ==
    /\ pc = "worker"
    /\ w' = Finish(writeStream(w, Frag(served, 1), TRUE))
    /\ calls' = calls \o writeStreamCalls(Frag(served, 1), TRUE)
    /\ disk' = {d \in disk :
                  \A i \in DOMAIN list : list[i].TempFilename # d.path}
    /\ path' = "ok"
    /\ pc' = "done"
    /\ UNCHANGED <<uploadIdle, served, r, execs, parts, list>>

UploadNext ==
    \/ UploadTranslate
    \/ \E i \in 1 .. MaxParts : FileOpen(i)
    \/ UploadExec
    \/ UploadRespond

UploadSpec == UploadInit /\ [][UploadNext]_vars

\* ------------------------------------------------- the RPC call and metrics
\* The plugin's pool with its workers, the RPC method Release (rpc.go holds
\* two builds of it) and the metrics exporter's Collect.
\* most workers of the pool
MaxWorkers == 2
\* largest memory usage of a worker
MaxMem == 2
\* most RPC calls in one behaviour
MaxCalls == 2
\* a float64 holds FloatBits significant bits (53 in the source)
FloatBits == 5

\* fsm.StateReady, fsm.StateWorking and states the switch does not name
StateReady == "ready"
StateWorking == "working"
Statuses == {StateReady, StateWorking, "invalid", "errored"}

\* process.State of the worker at place i of the pool
WorkerStates(i) ==
    [Pid : {MaxWorkers + 1 - i}, Status : Statuses, MemoryUsage : 1 .. MaxMem]
\* what Workers() can return
WorkerLists ==
    UNION {{ws \in [1 .. n -> UNION {WorkerStates(i) : i \in 1 .. n}] :
              \A i \in 1 .. n : ws[i] \in WorkerStates(i)} : n \in 0 .. MaxWorkers}
\* process.State.StatusStr: the name of the status
StatusStr(wk) == wk.Status

\* float64(n) for a non-negative integer: the nearest value with FloatBits
\* significant bits, ties to even
RECURSIVE BitLen(_)
BitLen(n) == IF n = 0 THEN 0 ELSE 1 + BitLen(n \div 2)
Float64(n) ==
    IF BitLen(n) <= FloatBits THEN n
    ELSE LET unit == Pow2(BitLen(n) - FloatBits)
             q == n \div unit
             rest == n % unit
         IN IF 2 * rest > unit \/ (2 * rest = unit /\ q % 2 = 1)
            THEN (q + 1) * unit
            ELSE q * unit

\* strconv.Itoa of a non-negative number: its decimal digits
RECURSIVE Itoa(_)
Itoa(n) == IF n < 10 THEN <<n>> ELSE Append(Itoa(n \div 10), n % 10)

\* prometheus.MustNewConstMetric(desc, prometheus.GaugeValue, value, labels...)
Metric(desc, value, labels) ==
    [desc |-> desc, value |-> value, labels |-> labels]

\* the switch counting a worker as invalid only in the state of that name
Bucket_InvalidOnly(status) ==
    IF status = StateReady THEN "ready"
    ELSE IF status = StateWorking THEN "working"
    ELSE IF status = "invalid" THEN "invalid"
    ELSE "none"

\* the switch on workerStates[i].Status
Bucket(status) ==
    IF status = StateReady THEN "ready"
    ELSE IF status = StateWorking THEN "working"
    ELSE "invalid"

NoCounts == [cum |-> 0, ready |-> 0, working |-> 0, invalid |-> 0,
             out |-> <<>>]
\* the loop of Collect over workerStates, from place i on
RECURSIVE CollectLoop(_, _, _)
CollectLoop(workerStates, i, acc) ==
    IF i > Len(workerStates) THEN acc
    ELSE LET wk == workerStates[i]
             b == Bucket(wk.Status)
             One(name) == IF b = name THEN 1 ELSE 0
         IN CollectLoop(workerStates, i + 1,
              [cum |-> Float64(acc.cum + Float64(wk.MemoryUsage)),
               ready |-> Float64(acc.ready + One("ready")),
               working |-> Float64(acc.working + One("working")),
               invalid |-> Float64(acc.invalid + One("invalid")),
               out |-> acc.out \o
                   <<Metric("StateDesc", 0, <<StatusStr(wk), Itoa(wk.Pid)>>),
                     Metric("WorkerMemoryDesc", Float64(wk.MemoryUsage),
                            <<Itoa(wk.Pid)>>)>>])

\* what Collect sends on ch for the snapshot workerStates
CollectMetrics(workerStates) ==
    LET a == CollectLoop(workerStates, 1, NoCounts)
    IN a.out \o
       <<Metric("WorkersReady", a.ready, <<>>),
         Metric("WorkersWorking", a.working, <<>>),
         Metric("WorkersInvalid", a.invalid, <<>>),
         Metric("TotalWorkersDesc", Float64(Len(workerStates)), <<>>),
         Metric("TotalMemoryDesc", a.cum, <<>>)>>

\* Pool.Release(pid) of a pool with the workers ws: nil ("") when pid is one
\* of its workers, an error otherwise
PoolRelease(ws, pid) ==
    IF \E i \in DOMAIN ws : ws[i].Pid = pid THEN "" ELSE "release failed"

\* the indicator with the two values exchanged
ReleaseOk_Swapped(err) == IF err # "" THEN 1 ELSE 2

\* response.Ok as Release sets it from the error of the pool's Release
ReleaseOk(err) == IF err # "" THEN 2 ELSE 1

\* what the RPC call and the scrape leave alone
adminIdle == <<cfgVars, hold, upVars, queryVars, served, pc, r, outVars, req,
               pld, errCh, once, getReqs, getPlds, execs, reqVars, pldVars,
               rspVars, chVars, resp, bg, drain, allocd>>

AdminInit ==
    /\ NewHandler(DefaultUploads) /\ ~wide /\ NoQuery
    /\ \E build \in {"local", "plugin"}, ws \in WorkerLists :
         NewPlugin(build, ws)

\* rpc.Release(request, response) with request.Pid = pid: the build of lines
\* 14-28 calls Release on a zero-value pool of its own, the build of lines
\* 42-53 on the plugin's pool
RpcRelease(pid) ==
    /\ Len(releaseReqs) + Len(localReqs) < MaxCalls
    /\ IF rpcBuild = "local"
       THEN /\ localReqs' = Append(localReqs, pid)
            /\ UNCHANGED releaseReqs
            /\ response' = [pid |-> pid,
                            Ok |-> ReleaseOk(PoolRelease(<<>>, pid)),
                            err |-> "",
                            released |-> PoolRelease(<<>>, pid) = ""]
       ELSE /\ releaseReqs' = Append(releaseReqs, pid)
            /\ UNCHANGED localReqs
            /\ response' = [pid |-> pid,
                            Ok |-> ReleaseOk(PoolRelease(workers, pid)),
                            err |-> "",
                            released |-> PoolRelease(workers, pid) = ""]
    /\ UNCHANGED <<adminIdle, rpcBuild, workers, metrics>>

\* StatsExporter.Collect(ch)
Collect ==
    /\ metrics' = CollectMetrics(workers)
    /\ UNCHANGED <<adminIdle, rpcBuild, workers, releaseReqs, localReqs,
                   response>>

\* the RPC calls made to a plugin
RpcNext == \E pid \in 1 .. MaxWorkers + 1 : RpcRelease(pid)

RpcSpec == AdminInit /\ [][RpcNext]_vars

\* the scrapes of a plugin's exporter
MetricsNext == Collect

MetricsSpec == AdminInit /\ [][MetricsNext]_vars

\* ---------------------------------------------------- getReq's raw query
\* getReq with the query string of the request spelled out, character by
\* character: the descriptor is taken from reqPool, filled, and its raw
\* query is the request's without line feeds and carriage returns.
\* longest raw query of a request
MaxQueryLen == 3

LF == "\n"
CR == "\r"
QueryChars == {"a", "=", LF, CR}
Queries == UNION {[1 .. n -> QueryChars] : n \in 0 .. MaxQueryLen}

\* strings.ReplaceAll(str, old, new) for a one-character old
RECURSIVE ReplaceAll(_, _, _)
ReplaceAll(str, old, new) ==
    IF str = <<>> THEN <<>>
    ELSE (IF Head(str) = old THEN new ELSE <<Head(str)>>)
         \o ReplaceAll(Tail(str), old, new)

\* the raw query with the line feeds removed only
getReqRawQuery_OnlyLF(rq) == ReplaceAll(rq, LF, <<>>)

\* rq := r.URL.RawQuery and the two ReplaceAll of getReq
getReqRawQuery(rq) == ReplaceAll(ReplaceAll(rq, LF, <<>>), CR, <<>>)

\* what getReq and putReq leave alone
queryIdle == <<cfgVars, upVars, adminVars, served, pc, r, outVars, req, pld,
               errCh, once, getReqs, getPlds, execs, putReqs, tmpFiles,
               pldVars, rspVars, chVars, resp, bg, drain>>

QueryInit == Init /\ ~wide

\* req := h.getReq(r) for a request with the raw query q
QueryGetReq(q) ==
    /\ ~Active(1)
    /\ hold[1].gets < MaxGets
    /\ \E id \in PoolGet(reqPool, allocd.req) :
         /\ allocd' = [allocd EXCEPT !.req = Max(@, id)]
         /\ reqObj' = [reqObj EXCEPT ![id] = getReq(@, 1)]
         /\ reqPool' = PoolTake(reqPool, id)
         /\ hold' = [hold EXCEPT ![1] = [id |-> id, puts |-> 0,
                                         gets |-> @.gets + 1]]
    /\ urlQuery' = q
    /\ reqQuery' = getReqRawQuery(q)
    /\ UNCHANGED queryIdle

\* h.putReq(req): req.RawQuery = "" with the other fields
QueryPutReq ==
    /\ Active(1)
    /\ reqObj' = [reqObj EXCEPT ![hold[1].id] = putReq(@)]
    /\ reqPool' = PoolPut(reqPool, hold[1].id)
    /\ hold' = [hold EXCEPT ![1].puts = @ + 1]
    /\ reqQuery' = <<>>
    /\ UNCHANGED <<queryIdle, allocd, urlQuery>>

QueryNext ==
    \/ \E q \in Queries : QueryGetReq(q)
    \/ QueryPutReq

QuerySpec == QueryInit /\ [][QueryNext]_vars

\* ------------------------------------------------------------ properties
\* number of entries of cs with operation op
Count(cs, op) == Cardinality({i \in DOMAIN cs : cs[i].op = op})

\* the call went through the dispatcher (it started ExecStream)
Dispatched == path \in {"execerr", "writeerr", "ok"}

\* the first n fragments of request k, in order
Frags(k, n) == [i \in 1 .. n |-> Frag(k, i)]

\* the response carries a No-Workers header
HasNoWorkers == \E h \in w.sent \cup w.hdr : h[1] = "No-Workers"

\* C1: a ServeHTTP call that acquired a Request descriptor has put exactly
\* that descriptor back exactly once when it returns, on every exit path,
\* and never before; a call rejected for its size acquired and released none.
C1_ReqReleasedOnce ==
    /\ Len(getReqs) <= 1
    /\ Len(putReqs) <= Len(getReqs)
    /\ pc \in {"payload", "exec", "loop"} => getReqs = <<req>> /\ putReqs = <<>>
    /\ pc = "done" =>
         IF path \in {"size400", "size500"}
         THEN getReqs = <<>> /\ putReqs = <<>>
         ELSE /\ path \in {"epipe", "translate", "payload", "execerr",
                           "writeerr", "ok"}
              /\ getReqs = <<req>>
              /\ putReqs = <<req>>
              /\ reqPool[req] = 1

\* C1 witness: a call that ended on an executor error released its descriptor
C1_Witness ==
    pc = "done" /\ path = "execerr" /\ getReqs = <<req>> /\ putReqs = <<req>>

\* C2: a call that reached the dispatcher has issued exactly one status
\* write (WriteHeader) on the response when it returns.
C2_StatusWrittenOnce ==
    (pc = "done" /\ Dispatched) => Count(calls, "WriteHeader") = 1

\* C3 (as claimed): when the executor of the call emitted N fragments and
\* then reported the error the loop received, the body is exactly fragments
\* 1..N and nothing at all is written after the error was received.
C3_AllFragmentsThenSilence ==
    (pc = "done" /\ path = "execerr" /\ lastErr.from = served) =>
        /\ w.body = Frags(served, bg[served].emitted)
        /\ \A i, j \in DOMAIN calls :
             (i < j /\ calls[i].op = "RecvErr") =>
                 calls[j].op \notin {"HeaderSet", "WriteHeader", "Write"}

\* C3 (amended): the body is a prefix 1..K of the N emitted fragments, in
\* order, with the status and headers of the first one when K >= 1; after
\* the error was received no body is written and no fragment is received:
\* the only calls are those of handleError for that error.
C3_PrefixThenHandleError ==
    /\ \A i \in DOMAIN calls :
         calls[i].op = "RecvErr" =>
             /\ \A j \in DOMAIN calls :
                  j > i => calls[j].op \in {"HeaderSet", "WriteHeader"}
             /\ pc = "done" =>
                  SubSeq(calls, i + 1, Len(calls)) = handleErrorCalls(lastErr)
    /\ (pc = "done" /\ path = "execerr" /\ lastErr.from = served) =>
         /\ \E K \in 0 .. bg[served].emitted : w.body = Frags(served, K)
         /\ w.body # <<>> =>
              /\ w.status = 200
              /\ w.sent = {<<"X-Worker", "k">>}
         /\ w.body = <<>> =>
              w.status = (IF lastErr.kind \in InternalKinds
                             \cup {"NoFreeWorkers"}
                          THEN internalHTTPCode ELSE 200)

\* C3 witness: the error was received while an emitted fragment had not
\* been written
C3_Witness ==
    /\ pc = "done" /\ path = "execerr" /\ lastErr.from = served
    /\ bg[served].emitted = 2
    /\ w.body = Frags(served, 1)

\* C4 (as claimed): while the error of the call's executor lies on the error
\* channel, the loop writes no fragment.
C4_ErrorPreemptsFragments ==
    [][(pc = "loop" /\ chBuf[errCh] # <<>>
          /\ Head(chBuf[errCh]).from = served)
       => Count(calls', "Write") = Count(calls, "Write")]_vars

\* C4 (amended): once the loop has received an error from the error
\* channel, it receives and writes no fragment any more; the fragments still
\* buffered stay on the channel for the drain goroutine.
C4_NoFragmentAfterReceivedError ==
    /\ \A i, j \in DOMAIN calls :
         (i < j /\ calls[i].op = "RecvErr") =>
             calls[j].op \notin {"RecvFrag", "RecvClose", "Write"}
    /\ (pc = "done" /\ path = "execerr") =>
         /\ calls # <<>>
         /\ Count(calls, "RecvErr") = 1
         /\ Count(calls, "Write") = Len(w.body)
         /\ drain[served] # "none"

\* C4 witness: a fragment was still buffered when the error was handled
C4_Witness ==
    /\ pc = "done" /\ path = "execerr"
    /\ resp[served].buf # <<>>
    /\ drain[served] = "run"

\* C5 (as claimed): a Content-Length above the non-zero maximum gets 400, no
\* ExecStream call and no pooled object.
C5_OversizeRejected ==
    (served >= 1 /\ maxRequestSize # 0 /\ r.cl.num
       /\ r.cl.n > maxRequestSize) =>
        /\ pc = "done"
        /\ w.status = 400
        /\ execs = 0
        /\ getReqs = <<>> /\ getPlds = <<>> /\ req = 0 /\ pld = 0 /\ errCh = 0

\* C5 (amended): a Content-Length that parses as an int64 and is above the
\* non-zero maximum gets 400, no ExecStream call and no pooled object.
C5_ParsedOversizeRejected ==
    (served >= 1 /\ maxRequestSize # 0 /\ r.cl.num /\ ~ParseInt(r.cl).err
       /\ r.cl.n > maxRequestSize) =>
        /\ pc = "done"
        /\ path = "size400"
        /\ w.status = 400
        /\ w.body = <<SizeMsg>>
        /\ execs = 0
        /\ getReqs = <<>> /\ getPlds = <<>> /\ req = 0 /\ pld = 0 /\ errCh = 0
        /\ putReqs = <<>> /\ putPlds = <<>>

\* C5 witness: a request rejected for its size
C5_Witness ==
    /\ pc = "done" /\ path = "size400" /\ w.status = 400
    /\ r.cl.num /\ r.cl.n = maxRequestSize + 1

C8_NoErrorTextToClient ==
    (pc = "done" /\ path \notin {"ok", "size400", "size500"}) =>
        \A i \in DOMAIN w.body : w.body[i].text \notin Details

\* C9: when the call returns, every payload it got from the pool has been
\* put back exactly once.
C9_PldReleasedOnce ==
    pc = "done" => putPlds = getPlds

\* C10: every object lying in a pool has its reference-bearing fields
\* cleared (Request descriptor: all fields zero; payload: body and context
\* empty; Response descriptor: headers nil, status -1).
C10_PooledObjectsCleared ==
    \A id \in Requests :
        /\ reqPool[id] > 0 => reqObj[id] = NewReq
        /\ pldPool[id] > 0 => pldObj[id].Body = 0 /\ pldObj[id].Context = 0
        /\ rspPool[id] > 0 => rspObj[id] = NewRsp

\* C11: putting one descriptor back twice harms no later user: no two callers
\* use the same descriptor at the same time, and every descriptor lying in
\* the pool has all its fields at their zero values.
C11_DoublePutHarmless ==
    /\ \A k1, k2 \in Requests :
         (k1 # k2 /\ Active(k1) /\ Active(k2)) => hold[k1].id # hold[k2].id
    /\ \A id \in Requests : reqPool[id] > 0 => reqObj[id] = NewReq

\* the fragments among the entries of cs with operation Write
FragWrites(cs) ==
    {i \in DOMAIN cs : cs[i].op = "Write" /\ cs[i].chunk.kind = "frag"}

\* C12: the fragments of a request are written in the order the executor put
\* them on the fragment channel, each at most once: the i-th body chunk is
\* the i-th fragment emitted, and of two fragment writes the later one
\* carries the later fragment.
C12_FragmentsInOrder ==
    /\ \A i \in DOMAIN w.body :
         w.body[i].kind = "frag" =>
             /\ w.body[i] = Frag(served, i)
             /\ i <= bg[served].emitted
    /\ \A i, j \in FragWrites(calls) :
         i < j => /\ calls[i].chunk.rid = served
                  /\ calls[j].chunk.rid = served
                  /\ calls[i].chunk.n < calls[j].chunk.n
    /\ Cardinality(FragWrites(calls)) =
         Cardinality({i \in DOMAIN w.body : w.body[i].kind = "frag"})

\* C12 witness: a call of a later request that wrote two fragments and ended
\* on the close of the channel
C12_Witness ==
    /\ pc = "done" /\ path = "ok" /\ served = 2
    /\ w.body = <<Frag(2, 1), Frag(2, 2)>>

\* the receive events that end the consuming loop
ExitEvents == {i \in DOMAIN calls : calls[i].op \in {"RecvErr", "RecvClose"}}

\* C13: the loop ends on the first close of the fragment channel or error
\* it receives: the call has returned once such an event is received and
\* receives and writes nothing after it; and with an executor that in the
\* end closes the channel or returns an error every ServeHTTP call returns.
C13_LoopExitsAndReturns ==
    /\ [](\A i \in ExitEvents :
            /\ pc = "done"
            /\ \A j \in DOMAIN calls :
                 j > i => calls[j].op \notin {"Write", "RecvFrag", "RecvErr",
                                              "RecvClose"})
    /\ (pc \in {"translate", "payload", "exec", "loop"}) ~> (pc = "done")

\* C13 witness: a call that wrote a fragment returned on the error received
\* next, with a second fragment still on the channel
C13_Witness ==
    /\ pc = "done" /\ path = "execerr"
    /\ ExitEvents = {Len(calls) - Len(handleErrorCalls(lastErr))}
    /\ Len(w.body) = 1
    /\ resp[served].buf # <<>>

\* C14: after a teardown the drain goroutine takes every fragment off the
\* fragment channel, so the executor does not stay blocked on a send, and
\* the drain goroutine itself finishes, the executor ending with one error
\* or with the close of the channel, never both.
C14_DrainCompletes ==
    /\ \A k \in Requests :
         (drain[k] = "run" /\ resp[k].buf # <<>>) ~> (resp[k].buf = <<>>)
    /\ \A k \in Requests : (drain[k] = "run") ~> (drain[k] = "done")

\* a step that takes an element off the fragment channel of request k
RecvResp(k) == Len(resp'[k].buf) < Len(resp[k].buf)
\* a step that takes an element off error channel c
RecvErrCh(c) == Len(chBuf'[c]) < Len(chBuf[c])
\* a step of the foreground call inside its consuming loop
LoopStep == pc = "loop" /\ (calls' # calls \/ pc' = "done")

\* C15 (as claimed): a request has one background task and no other, and
\* only its foreground call ever receives from its fragment channel and
\* from its error channel.
C15_OneTaskSoleReceiver ==
    [][/\ \A k \in Requests : drain'[k] = "none"
       /\ \A k \in Requests : RecvResp(k) => (k = served /\ LoopStep)
       /\ \A c \in Requests : RecvErrCh(c) => (c = errCh /\ LoopStep)]_vars

\* C15 (amended): a call starts ExecStream once, in one goroutine, and only
\* a teardown on an executor error or a failed write starts one more, the
\* drain goroutine; until the call returns only its loop receives from its
\* fragment channel and its error channel, after the teardown only the
\* drain goroutine receives from the fragment channel, and the error
\* channel is received from by ServeHTTP calls only.
C15_ForegroundThenDrain ==
    /\ [](/\ execs <= 1
          /\ (pc = "loop" \/ (pc = "done" /\ Dispatched)) =>
                (execs = 1 /\ bg[served].st # "none")
          /\ \A k \in Requests :
               /\ bg[k].st # "none" =>
                    (k < served \/ (k = served /\ execs = 1))
               /\ drain[k] # "none" =>
                    \/ k < served
                    \/ /\ k = served /\ pc = "done"
                       /\ path \in {"execerr", "writeerr"})
    /\ [][/\ \A k \in Requests :
              /\ RecvResp(k) =>
                   IF drain[k] = "none" THEN k = served /\ LoopStep
                   ELSE drain[k] = "run" /\ UNCHANGED fgVars
              /\ drain'[k] # drain[k] =>
                   \/ drain[k] = "none" /\ drain'[k] = "run"
                         /\ k = served /\ LoopStep
                   \/ drain[k] = "run" /\ drain'[k] = "done"
          /\ \A c \in Requests : RecvErrCh(c) => (c = errCh /\ LoopStep)]_vars

\* C15 witness: after a teardown the drain goroutine took a fragment the
\* loop had not received
C15_Witness ==
    /\ pc = "done" /\ path \in {"execerr", "writeerr"}
    /\ drain[served] = "run"
    /\ bg[served].emitted = 2
    /\ resp[served].buf = <<>>
    /\ Count(calls, "RecvFrag") <= 1

\* index of the last fragment receive in cs (0: none)
LastRecvFrag(cs) ==
    LET S == {i \in DOMAIN cs : cs[i].op = "RecvFrag"}
    IN IF S = {} THEN 0 ELSE CHOOSE i \in S : \A j \in S : j <= i

\* C16: when the write of a fragment fails, the call puts its Request
\* descriptor back (closed), attempts no write of status, header or body
\* after the failed one, and leaves the executor running: the step changes
\* neither the background goroutine nor the fragment channel, and the drain
\* goroutine is started to take the remaining output.
C16_WriteFailureTeardown ==
    /\ []((pc = "done" /\ path = "writeerr") =>
            /\ lastErr.kind = "EPIPE"
            /\ putReqs = <<req>> /\ reqPool[req] = 1
            /\ reqObj[req].Uploads \notin tmpFiles
            /\ LastRecvFrag(calls) > 0
            /\ SubSeq(calls, LastRecvFrag(calls) + 1, Len(calls))
                 = writeStreamFailCalls(~once)
            /\ \A i \in DOMAIN w.body : w.body[i].kind = "frag"
            /\ Len(w.body) = Count(calls, "RecvFrag") - 1
            /\ drain[served] # "none")
    /\ [][(pc = "loop" /\ path' = "writeerr") =>
            /\ bg' = bg
            /\ resp'[served].closed = resp[served].closed
            /\ drain'[served] = "run"]_vars

\* C16 witness: the write of the first fragment failed, the executor went
\* on to emit a second fragment and the drain goroutine took it
C16_Witness ==
    /\ pc = "done" /\ path = "writeerr"
    /\ Count(calls, "RecvFrag") = 1 /\ w.body = <<>>
    /\ bg[served].emitted = 2 /\ bg[served].st = "exec"
    /\ resp[served].buf = <<>>
    /\ drain[served] = "run"

\* C17: a translation that fails on the broken client pipe writes nothing on
\* the response, starts no executor, and closes and puts back the Request
\* descriptor; a translation that fails otherwise is answered with status
\* 500 and starts no executor either.
C17_TranslationFailures ==
    /\ (pc = "done" /\ path = "epipe") =>
         /\ lastErr.kind = "EPIPE"
         /\ calls = <<>>
         /\ w.body = <<>> /\ w.hdr = {} /\ w.sent = {}
         /\ execs = 0 /\ bg[served].st = "none" /\ errCh = 0
         /\ getReqs = <<req>> /\ putReqs = <<req>> /\ reqPool[req] = 1
         /\ reqObj[req].Uploads \notin tmpFiles
         /\ getPlds = <<>>
    /\ (pc = "done" /\ path = "translate") =>
         /\ w.status = 500
         /\ Count(calls, "WriteHeader") = 1
         /\ execs = 0 /\ bg[served].st = "none" /\ errCh = 0
         /\ getReqs = <<req>> /\ putReqs = <<req>> /\ reqPool[req] = 1
         /\ getPlds = <<>>

\* C17 witness: the second request of a behaviour failed on the broken pipe
\* with a descriptor the first one had used
C17_Witness ==
    /\ pc = "done" /\ path = "epipe" /\ served = 2
    /\ calls = <<>> /\ execs = 0
    /\ allocd.req = 1 /\ putReqs = <<1>>

\* the lower-case extension of each file name, written out
ExpectedExt(name) ==
    CASE name = NameGo -> DotGo
      [] name = NameGoUpper -> DotGo
      [] name = NamePhp -> DotPhp
      [] name = NameNoExt -> <<>>

\* C18: with a usable upload directory an upload gets a non-zero error code,
\* the extension one, exactly when its lower-cased extension is in the
\* forbidden set or the allowed set is not empty and lacks it; a forbidden
\* extension is refused whatever the allowed set holds, and with both sets
\* empty every file is accepted with code 0.
C18_ExtensionRule ==
    (pc \in {"open", "worker", "done"} /\ uploads.dir \in UsableDirs) =>
        \A i \in DOMAIN list :
            list[i].opened =>
                LET ext == ExpectedExt(list[i].Name)
                    refused == \/ ext \in uploads.forbid
                               \/ /\ uploads.allow # {}
                                  /\ ext \notin uploads.allow
                IN /\ (list[i].Error # UploadErrorOK) <=> refused
                   /\ refused => list[i].Error = UploadErrorExtension
                   /\ ext \in uploads.forbid =>
                        list[i].Error = UploadErrorExtension
                   /\ (uploads.forbid = {} /\ uploads.allow = {}) =>
                        list[i].Error = UploadErrorOK

\* C18 witness: an upper-case extension that is both forbidden and allowed
\* is refused, next to an allowed one that is accepted
C18_Witness ==
    /\ pc = "worker" /\ uploads.dir \in UsableDirs
    /\ uploads.forbid = {DotGo} /\ uploads.allow = {DotGo, DotPhp}
    /\ Len(list) = 2
    /\ list[1].Name = NameGoUpper /\ list[1].Error = UploadErrorExtension
    /\ list[2].Name = NamePhp /\ list[2].Error = UploadErrorOK

\* C19: with an unusable upload directory every upload gets the storage
\* error code 6, whatever its extension and the forbidden and allowed sets,
\* nothing is stored, size 0 and no checksum are reported, and the call
\* still ends with the worker's status 200.
C19_UnusableDirectory ==
    (uploads.dir \notin UsableDirs) =>
        /\ disk = {}
        /\ \A i \in DOMAIN list :
             list[i].opened =>
                 /\ list[i].Error = UploadErrorNoTmpDir
                 /\ list[i].Size = 0
                 /\ list[i].Sha512 = 0
                 /\ list[i].TempFilename = NoPath
        /\ pc \in {"worker", "done"} => \A i \in DOMAIN list : list[i].opened
        /\ pc = "done" => (path = "ok" /\ w.status = 200 /\ execs = 1)

\* C19 witness: a file with a forbidden extension and one without extension,
\* both with code 6, in a call that ended with 200
C19_Witness ==
    /\ pc = "done" /\ uploads.dir = "--------"
    /\ uploads.forbid = {DotGo} /\ uploads.allow = {DotPhp}
    /\ Len(list) = 2
    /\ list[1].Name = NameGo /\ list[1].Error = UploadErrorNoTmpDir
    /\ list[2].Name = NameNoExt /\ list[2].Error = UploadErrorNoTmpDir
    /\ w.status = 200

\* C20: an opened Upload descriptor has error code 0 exactly when a
\* temporary file was made for it; then its size is the number of bytes
\* written to that file and its checksum is the checksum of those bytes,
\* which are the bytes of the part; with a non-zero code it has size 0, no
\* temporary path and no checksum.
C20_UploadDescriptors ==
    \A i \in DOMAIN list :
        list[i].opened =>
            LET f == list[i]
                stored == {d \in disk : d.path = f.TempFilename}
            IN /\ pc \in {"open", "worker"} =>
                    /\ (f.Error = UploadErrorOK) <=> (stored # {})
                    /\ \A d \in stored :
                         /\ d.bytes = parts[i].data
                         /\ f.Size = Len(d.bytes)
                         /\ f.Sha512 = Checksum(d.bytes)
                    /\ Cardinality(stored) <= 1
               /\ f.Error = UploadErrorOK =>
                    /\ f.TempFilename # NoPath
                    /\ f.Size = Len(parts[i].data)
                    /\ f.Sha512 # 0
                    /\ \A j \in DOMAIN list :
                         j # i => list[j].TempFilename # f.TempFilename
               /\ f.Error # UploadErrorOK =>
                    /\ f.Size = 0
                    /\ f.TempFilename = NoPath
                    /\ f.Sha512 = 0

\* C20 witness: the worker is handed a stored file of one byte, whose header
\* declared another size, next to a refused one
C20_Witness ==
    /\ pc = "worker" /\ Len(list) = 2
    /\ list[1].Error = UploadErrorOK /\ list[1].Size = 1
    /\ parts[1].declared # 1
    /\ \E d \in disk : d.path = list[1].TempFilename /\ d.bytes = <<1>>
    /\ list[2].Error = UploadErrorExtension /\ list[2].Size = 0

\* C21: an RPC Release call returns no error, and its response indicator is
\* 1 or 2: 1 exactly when the Release of the pool it called gave no error,
\* 2 exactly when it gave one.
C21_ReleaseIndicator ==
    response.pid # 0 =>
        /\ response.err = ""
        /\ response.Ok \in {1, 2}
        /\ response.Ok = 1 <=> response.released
        /\ response.Ok = 2 <=> ~response.released

\* C21 witness: the plugin's pool refused the release of a pid it does not
\* have and then released one of its workers
C21_Witness ==
    /\ rpcBuild = "plugin"
    /\ Len(releaseReqs) = 2 /\ Len(workers) = 1
    /\ releaseReqs[1] = MaxWorkers + 1
    /\ response.pid = workers[1].Pid /\ response.Ok = 1

\* C22: after an RPC Release call for a pid, the pool that serves the
\* plugin's requests was asked to release that pid, by the last request it
\* received, and no other pool was asked.
C22_ReleaseAsksPluginPool ==
    response.pid # 0 =>
        /\ localReqs = <<>>
        /\ releaseReqs # <<>>
        /\ releaseReqs[Len(releaseReqs)] = response.pid

\* workers of the snapshot ws whose status is in S
InStates(ws, S) == Cardinality({i \in DOMAIN ws : ws[i].Status \in S})
\* the sum of the memory usage of the workers of ws
RECURSIVE SumMem(_)
SumMem(ws) ==
    IF ws = <<>> THEN 0 ELSE Head(ws).MemoryUsage + SumMem(Tail(ws))
\* the places of ms holding a metric of the description desc
Of(ms, desc) == {i \in DOMAIN ms : ms[i].desc = desc}
\* ms holds one metric of the description desc, without labels, of value v
Single(ms, desc, v) ==
    \E i \in DOMAIN ms :
        Of(ms, desc) = {i} /\ ms[i].value = v /\ ms[i].labels = <<>>
\* ms is the scrape of the snapshot ws
ScrapeOf(ws, ms) ==
    /\ Single(ms, "TotalWorkersDesc", Len(ws))
    /\ Single(ms, "TotalMemoryDesc", SumMem(ws))
    /\ Single(ms, "WorkersReady", InStates(ws, {StateReady}))
    /\ Single(ms, "WorkersWorking", InStates(ws, {StateWorking}))
    /\ Single(ms, "WorkersInvalid",
              InStates(ws, Statuses \ {StateReady, StateWorking}))
    /\ \E re, wo, inv \in 0 .. Len(ws) :
         /\ Single(ms, "WorkersReady", re)
         /\ Single(ms, "WorkersWorking", wo)
         /\ Single(ms, "WorkersInvalid", inv)
         /\ re + wo + inv = Len(ws)
    /\ Cardinality(Of(ms, "WorkerMemoryDesc")) = Len(ws)
    /\ Cardinality(Of(ms, "StateDesc")) = Len(ws)
    /\ \A i \in DOMAIN ws :
         /\ \E j \in Of(ms, "WorkerMemoryDesc") :
              /\ ms[j].labels = <<Itoa(ws[i].Pid)>>
              /\ ms[j].value = ws[i].MemoryUsage
         /\ \E j \in Of(ms, "StateDesc") :
              ms[j].labels = <<ws[i].Status, Itoa(ws[i].Pid)>>
    /\ Len(ms) = 2 * Len(ws) + 5

\* C23: a scrape sends, for the snapshot of the pool's workers, the total
\* count, the sum of the memory values, one memory gauge and one state
\* gauge per worker, and ready, working and invalid counts that put every
\* worker in one bucket; it changes neither the workers nor anything else of
\* the pool.
C23_Scrape ==
    [][metrics' # metrics =>
         /\ ScrapeOf(workers, metrics')
         /\ UNCHANGED <<workers, releaseReqs, localReqs, response>>]_vars

\* C23 witness: the scrape of an errored and a ready worker counted one
\* invalid and one ready
C23_Witness ==
    /\ Len(workers) = 2
    /\ workers[1].Status = "errored" /\ workers[2].Status = StateReady
    /\ workers[1].MemoryUsage = MaxMem /\ workers[2].MemoryUsage = 1
    /\ Single(metrics, "WorkersInvalid", 1)
    /\ Single(metrics, "WorkersReady", 1)
    /\ Single(metrics, "TotalMemoryDesc", MaxMem + 1)

\* a character that is neither a carriage return nor a line feed
NotCRLF(c) == c \notin {CR, LF}

\* C24: the raw query of a descriptor filled by getReq has no carriage
\* return and no line feed, and is the request's raw query with exactly
\* those characters left out, the others in their order.
C24_RawQuerySanitized ==
    Active(1) =>
        /\ \A i \in DOMAIN reqQuery : reqQuery[i] \notin {CR, LF}
        /\ reqQuery = SelectSeq(urlQuery, NotCRLF)

\* C24 witness: a query with a carriage return ahead of a line feed and a
\* character after them
C24_Witness ==
    /\ Active(1)
    /\ urlQuery = <<CR, LF, "a">>
    /\ reqQuery = <<"a">>

\* C25, as the claim states it: the configured maximum is a number of
\* bytes; with maximum 0 no request is rejected for its size, and with a
\* maximum above 0 a request gets 400 for its size exactly when its
\* Content-Length is a number above the maximum.
C25_MaxIsBytes ==
    served > 0 =>
        /\ maxReqSize = 0 => path # "size400"
        /\ maxReqSize > 0 =>
             (path = "size400" <=> (r.cl.num /\ r.cl.n > maxReqSize))
        /\ path = "size400" => w.status = 400

\* the byte ceiling of a Handler made with the maximum m: m megabytes in 64
\* bits, read as a signed number by the comparison
CeilingOf(m) ==
    LET u == (m * MB) % Pow2(IntBits)
    IN [stored |-> u,
        signed |-> IF u >= Pow2(IntBits - 1) THEN u - Pow2(IntBits) ELSE u]

\* C25, amended: the configured maximum is a number of megabytes, stored as
\* maximum * MB bytes in 64 bits; with a stored ceiling of 0 no request is
\* rejected for its size, otherwise a request gets 400 for its size exactly
\* when its Content-Length is a numeral of the int64 range above the
\* ceiling read as an int64; an equal or absent Content-Length passes.
C25_MaxIsMegabytes ==
    served > 0 =>
        /\ maxRequestSize = CeilingOf(maxReqSize).stored
        /\ CeilingOf(maxReqSize).stored = 0 => path # "size400"
        /\ CeilingOf(maxReqSize).stored # 0 =>
             (path = "size400" <=>
                 /\ r.cl.num
                 /\ r.cl.n >= -Pow2(IntBits - 1)
                 /\ r.cl.n < Pow2(IntBits - 1)
                 /\ r.cl.n > CeilingOf(maxReqSize).signed)
        /\ path = "size400" => w.status = 400
        /\ (r.cl = NoCL \/ (r.cl.num /\ r.cl.n = CeilingOf(maxReqSize).signed))
             => path \notin {"size400", "size500"}

\* C25 witness: with a maximum of 1 a Content-Length of MB bytes is past the
\* size check and is being translated
C25_Witness ==
    /\ maxReqSize = 1
    /\ r.cl.num /\ r.cl.n = MB
    /\ pc = "translate"

\* C26: the error a call's loop receives on its error channel was produced
\* by the executor of that call's own request, never by another request's.
C26_ErrorsIsolated ==
    (pc = "done" /\ path = "execerr") => lastErr.from = served

\* the background goroutine of request k still runs: it is in ExecStream or
\* about to send its error
Running(k) == bg[k].st \in {"exec", "send"}

\* C27, the payload: it is not in pldPool while the executor works on it,
\* nor while the call that got it is in its loop
C27_PayloadPart ==
    /\ \A k \in Requests : bg[k].st = "exec" => pldPool[bg[k].pld] = 0
    /\ pc \in {"exec", "loop"} => pldPool[pld] = 0

\* C27, the Request descriptor: it is not in reqPool while its call goes on
C27_DescriptorPart ==
    pc \in {"payload", "exec", "loop"} => reqPool[req] = 0

\* C27, the error channel: it is not in errPool while a goroutine is still
\* to send on it, and no two requests hold it at the same time
C27_ChannelPart ==
    /\ \A k \in Requests : Running(k) => errPool[bg[k].ch] = 0
    /\ \A k \in Requests :
         (Running(k) /\ pc = "loop" /\ k # served) => bg[k].ch # errCh

\* C27: a pooled object is held by one request at a time and is not in its
\* pool while in use: the payload, the Request descriptor and the error
\* channel.
C27_ExclusiveBorrow ==
    C27_PayloadPart /\ C27_DescriptorPart /\ C27_ChannelPart

\* the Content-Length header of the request is a numeral of the int64 range
ParsesInt64(cl) ==
    cl.num /\ cl.n >= -Pow2(IntBits - 1) /\ cl.n < Pow2(IntBits - 1)

\* C28: with a non-zero maximum (h.maxRequestSize) a request whose
\* Content-Length header is present and does not parse gets status 500 with
\* an empty message, no pooled object is taken and ExecStream is not
\* called; with maximum 0 the header is not looked at and the request goes
\* on to its translation.
C28_UnparsableLength ==
    served > 0 =>
        /\ (maxRequestSize # 0 /\ r.cl.text # "" /\ ~ParsesInt64(r.cl)) =>
             /\ pc = "done" /\ path = "size500"
             /\ w.status = 500
             /\ w.body = <<Msg("", "")>>
             /\ getReqs = <<>> /\ getPlds = <<>>
             /\ req = 0 /\ pld = 0 /\ errCh = 0
             /\ execs = 0
        /\ maxRequestSize = 0 =>
             /\ path \notin {"size500", "size400"}
             /\ pc # "translate" => getReqs # <<>>

\* C28 witness: a Content-Length that is no numeral was answered with 500
C28_Witness ==
    /\ maxRequestSize # 0
    /\ r.cl.text = "x"
    /\ pc = "done" /\ w.status = 500 /\ execs = 0

====
